---- MODULE Spec2Model ----
(***************************************************************************)
(* Model of enum2string (src/main.py): a libclang AST is walked for enum   *)
(* definitions, and for each one a C++ function mapping enumerators to     *)
(* their names is printed, wrapped in the enclosing namespaces.            *)
(*                                                                         *)
(* Text is modelled as a sequence of atoms: an atom is one character of an *)
(* identifier or of a separator, or one fixed fragment of a format string. *)
(* The AST is a sequence of node records in document (pre-)order; a node's *)
(* parent field is the index of its parent, 0 being the translation unit.  *)
(***************************************************************************)
EXTENDS Integers, Sequences, FiniteSets, TLC

VARIABLES cpp_file, tree, pc, enums_and_ns, i, out, exitCode, failedAt, genEnum, genCode

vars == <<cpp_file, tree, pc, enums_and_ns, i, out, exitCode, failedAt, genEnum, genCode>>

\* ---------------------------------------------------------------- bounds
\* Declarations in a translation unit whose extraction is checked.
MaxNodes == 4

\* Declarations in a translation unit on which a whole run is checked.
MaxRunNodes == 3

\* Children of one enum declaration handed to the generator.
MaxItems == 3

\* ------------------------------------------------------------- AST nodes
NL == "\n"

Colon == ":"

IsContainer(n) == n.kind \in {"NAMESPACE", "CLASS_DECL"}

Const(s) == [kind |-> "ENUM_CONSTANT_DECL", spelling |-> s]

OtherItem == [kind |-> "ANNOTATE_ATTR", spelling |-> <<"d">>]

\* The declarations a translation unit is built from.
NodeTemplates ==
    { [kind |-> "NAMESPACE",  spelling |-> <<"A">>, is_definition |-> TRUE,  scoped |-> FALSE, items |-> <<>>],
      [kind |-> "NAMESPACE",  spelling |-> <<"B">>, is_definition |-> TRUE,  scoped |-> FALSE, items |-> <<>>],
      [kind |-> "NAMESPACE",  spelling |-> <<>>,    is_definition |-> TRUE,  scoped |-> FALSE, items |-> <<>>],
      [kind |-> "CLASS_DECL", spelling |-> <<"C">>, is_definition |-> TRUE,  scoped |-> FALSE, items |-> <<>>],
      [kind |-> "ENUM_DECL",  spelling |-> <<"E">>, is_definition |-> TRUE,  scoped |-> TRUE,
       items |-> <<Const(<<"X">>), Const(<<"Y">>)>>],
      [kind |-> "ENUM_DECL",  spelling |-> <<"E">>, is_definition |-> FALSE, scoped |-> TRUE,  items |-> <<>>],
      [kind |-> "ENUM_DECL",  spelling |-> <<"U">>, is_definition |-> TRUE,  scoped |-> FALSE,
       items |-> <<Const(<<"P">>)>>],
      [kind |-> "ENUM_DECL",  spelling |-> <<>>,    is_definition |-> TRUE,  scoped |-> FALSE,
       items |-> <<Const(<<"Q">>)>>] }

WithParent(tpl, p) ==
    [kind |-> tpl.kind, spelling |-> tpl.spelling, is_definition |-> tpl.is_definition,
     scoped |-> tpl.scoped, items |-> tpl.items, parent |-> p]

RECURSIVE SelfAndAncestors(_, _)
SelfAndAncestors(t, n) == IF n = 0 THEN {0} ELSE {n} \cup SelfAndAncestors(t, t[n].parent)

\* Where the next declaration in document order can be nested: at top level,
\* or in a namespace or class that is still open after the last declaration.
AttachPoints(t) ==
    IF t = <<>> THEN {0}
    ELSE {0} \cup { n \in SelfAndAncestors(t, Len(t)) \ {0} : IsContainer(t[n]) }

\* Cursor.get_children(): the children of node n (0 = translation unit), in
\* document order.
RECURSIVE ChildrenFrom(_, _, _)
ChildrenFrom(t, n, k) ==
    IF k > Len(t) THEN <<>>
    ELSE (IF t[k].parent = n THEN <<k>> ELSE <<>>) \o ChildrenFrom(t, n, k + 1)

get_children(t, n) == ChildrenFrom(t, n, 1)

\* ------------------------------------------------------------ extraction
Sep == <<Colon, Colon>>

new_ns(current_ns, spelling) ==
    IF current_ns # <<>> THEN current_ns \o Sep \o spelling ELSE spelling

\* A slip that forgets the is_definition() test.
IsExtracted_nodef(child) == child.kind = "ENUM_DECL"

IsExtracted(child) == child.kind = "ENUM_DECL" /\ child.is_definition

\* A slip that descends into every scope that can hold declarations.
IsNamespace_anyscope(child) == child.kind \in {"NAMESPACE", "CLASS_DECL"}

IsNamespace(child) == child.kind = "NAMESPACE"

RECURSIVE get_enumclass_with_namespace(_, _, _)
RECURSIVE VisitChildren(_, _, _)
\* A slip that keeps the extended path in current_ns after the recursion, so
\* that it is still in effect for the siblings that follow the namespace.
RECURSIVE VisitChildren_leak(_, _, _)
VisitChildren_leak(t, kids, current_ns) ==
    IF kids = <<>> THEN <<>>
    ELSE LET child == Head(kids)
             isNs == ~IsExtracted(t[child]) /\ IsNamespace(t[child])
             ns2 == IF isNs THEN new_ns(current_ns, t[child].spelling) ELSE current_ns
             found == IF IsExtracted(t[child]) THEN << <<child, current_ns>> >>
                      ELSE IF isNs THEN get_enumclass_with_namespace(t, child, ns2)
                           ELSE <<>>
         IN  found \o VisitChildren_leak(t, Tail(kids), ns2)

VisitChildren(t, kids, current_ns) ==
    IF kids = <<>> THEN <<>>
    ELSE LET child == Head(kids)
             found == IF IsExtracted(t[child]) THEN << <<child, current_ns>> >>
                      ELSE IF IsNamespace(t[child])
                           THEN get_enumclass_with_namespace(t, child, new_ns(current_ns, t[child].spelling))
                           ELSE <<>>
         IN  found \o VisitChildren(t, Tail(kids), current_ns)

get_enumclass_with_namespace(t, node, current_ns) ==
    VisitChildren(t, get_children(t, node), current_ns)

\* ------------------------------------------------- namespace wrapping text
\* str.split("::"): the pieces between non-overlapping occurrences of the
\* separator, scanned left to right; the empty string splits into one
\* empty piece.
RECURSIVE SplitFrom(_, _, _)
SplitFrom(s, k, cur) ==
    IF k > Len(s) THEN << cur >>
    ELSE IF k + 1 <= Len(s) /\ s[k] = Colon /\ s[k + 1] = Colon
         THEN << cur >> \o SplitFrom(s, k + 2, <<>>)
         ELSE SplitFrom(s, k + 1, Append(cur, s[k]))

split(s) == SplitFrom(s, 1, <<>>)

RECURSIVE reversed(_)
reversed(s) == IF s = <<>> THEN <<>> ELSE Append(reversed(Tail(s)), Head(s))

\* "".join(f(part) for part in parts)
RECURSIVE JoinOpen(_)
JoinOpen(parts) ==
    IF parts = <<>> THEN <<>>
    ELSE (<<"namespace ">> \o Head(parts) \o <<" {", NL>>) \o JoinOpen(Tail(parts))

RECURSIVE JoinClose(_)
JoinClose(parts) ==
    IF parts = <<>> THEN <<>>
    ELSE (<<"} // namespace ">> \o Head(parts) \o <<NL>>) \o JoinClose(Tail(parts))

\* A slip that drops the empty-path guard: "".split("::") is [""], one piece.
generate_namespace_header_noguard(namespace_path) == JoinOpen(split(namespace_path))

generate_namespace_header(namespace_path) ==
    IF namespace_path = <<>> THEN <<>> ELSE JoinOpen(split(namespace_path))

\* A slip that closes the namespaces in opening order.
generate_namespace_footer_unreversed(namespace_path) ==
    IF namespace_path = <<>> THEN <<>> ELSE JoinClose(split(namespace_path))

generate_namespace_footer(namespace_path) ==
    IF namespace_path = <<>> THEN <<>> ELSE JoinClose(reversed(split(namespace_path)))

\* ------------------------------------------------------- function text
\* str.lower() on the identifier characters the model uses.
LowerChar(c) ==
    CASE c = "A" -> "a" [] c = "B" -> "b" [] c = "C" -> "c" [] c = "E" -> "e"
      [] c = "U" -> "u" [] OTHER -> c

lower(s) == [k \in 1..Len(s) |-> LowerChar(s[k])]

\* The dict comprehension of generate_error_msg_function: keys in first
\* insertion order, a repeated key keeps its first position.
RECURSIVE items_name(_, _)
\* A slip that forgets the ENUM_CONSTANT_DECL filter.
RECURSIVE items_name_nofilter(_, _)
items_name_nofilter(items, d) ==
    IF items = <<>> THEN d
    ELSE LET item == Head(items)
             d2 == IF ~ \E k \in 1..Len(d) : d[k] = item.spelling
                   THEN Append(d, item.spelling) ELSE d
         IN  items_name_nofilter(Tail(items), d2)

items_name(items, d) ==
    IF items = <<>> THEN d
    ELSE LET item == Head(items)
             d2 == IF item.kind = "ENUM_CONSTANT_DECL"
                       /\ ~ \E k \in 1..Len(d) : d[k] = item.spelling
                   THEN Append(d, item.spelling) ELSE d
         IN  items_name(Tail(items), d2)

CaseLine(enum_name, key) ==
    <<"        case ">> \o enum_name \o Sep \o key \o <<": return \"">> \o key \o <<"\";", NL>>

RECURSIVE CaseLines(_, _)
CaseLines(enum_name, keys) ==
    IF keys = <<>> THEN <<>>
    ELSE CaseLine(enum_name, Head(keys)) \o CaseLines(enum_name, Tail(keys))

DefaultLines == <<"        default: return \"Unknown error\";", NL, "    }", NL, "}", NL>>

generate_error_msg_function(enum) ==
    LET enum_name == enum.spelling
        function_name == <<"error_msg_">> \o lower(enum_name)
    IN  <<"const char* ">> \o function_name \o <<"(">> \o enum_name \o <<" err) {", NL,
          "    switch(err) {", NL>>
        \o CaseLines(enum_name, items_name(enum.items, <<>>))
        \o DefaultLines

\* ------------------------------------------------------------- the run
ExistingFile == <<"e", ".", "h">>

MissingFile == <<"m", ".", "h">>

Files == {ExistingFile, MissingFile}

NoEnum == [kind |-> "ENUM_DECL", spelling |-> <<>>, items |-> <<>>]

Banner == <<"// Auto-generated error_msg function", NL>>

IncludeLine(f) == <<"#include \"">> \o f \o <<"\"", NL>>

ErrorLine(msg) == <<"Error: ", msg>>

\* print(x): x followed by a newline, written to standard output as one chunk.
print(o, x) == Append(o, x \o <<NL>>)

Init ==
    /\ cpp_file \in Files
    /\ tree = <<>>
    /\ pc = "source"
    /\ enums_and_ns = <<>>
    /\ i = 0
    /\ out = <<>>
    /\ exitCode = <<>>
    /\ failedAt = "none"
    /\ genEnum = NoEnum
    /\ genCode = <<>>

\* The source file's next declaration, in document order: the translation
\* unit the front end will deliver is built one declaration at a time.
AddDecl(bound) ==
    /\ pc = "source"
    /\ cpp_file = ExistingFile
    /\ Len(tree) < bound
    /\ \E tpl \in NodeTemplates, p \in AttachPoints(tree) :
          tree' = Append(tree, WithParent(tpl, p))
    /\ UNCHANGED <<cpp_file, pc, enums_and_ns, i, out, exitCode, failedAt, genEnum, genCode>>

\* main, lines 104-105: the file parses and the extractor runs on its root.
ParseAndExtract ==
    /\ pc = "source"
    /\ cpp_file = ExistingFile
    /\ enums_and_ns' = get_enumclass_with_namespace(tree, 0, <<>>)
    /\ pc' = "extracted"
    /\ UNCHANGED <<cpp_file, tree, i, out, exitCode, failedAt, genEnum, genCode>>

\* except Exception as e: print(f"Error: {e}"); sys.exit(1)
Raise(stage, msg) ==
    /\ out' = print(out, ErrorLine(msg))
    /\ exitCode' = <<1>>
    /\ failedAt' = stage
    /\ pc' = "exited"

\* parse_cppfile raises: the file is missing, or the front-end library
\* cannot be loaded. No translation unit exists.
ParseFail ==
    /\ pc = "source"
    /\ tree = <<>>
    /\ Raise("parse", "Error parsing translation unit.")
    /\ UNCHANGED <<cpp_file, tree, enums_and_ns, i, genEnum, genCode>>

\* A slip that reports the error and forgets sys.exit(1).
ExtractFail_noexit ==
    /\ pc = "source"
    /\ cpp_file = ExistingFile
    /\ out' = print(out, ErrorLine("traversal error"))
    /\ exitCode' = <<0>>
    /\ failedAt' = "extract"
    /\ pc' = "exited"
    /\ UNCHANGED <<cpp_file, tree, enums_and_ns, i, genEnum, genCode>>

\* The traversal raises (a front-end error while visiting the cursors).
ExtractFail ==
    /\ pc = "source"
    /\ cpp_file = ExistingFile
    /\ Raise("extract", "traversal error")
    /\ UNCHANGED <<cpp_file, tree, enums_and_ns, i, genEnum, genCode>>

PrintBanner ==
    /\ pc = "extracted"
    /\ out' = print(out, Banner)
    /\ pc' = "banner"
    /\ UNCHANGED <<cpp_file, tree, enums_and_ns, i, exitCode, failedAt, genEnum, genCode>>

PrintInclude ==
    /\ pc = "banner"
    /\ out' = print(out, IncludeLine(cpp_file))
    /\ pc' = "header"
    /\ i' = 1
    /\ UNCHANGED <<cpp_file, tree, enums_and_ns, exitCode, failedAt, genEnum, genCode>>

\* for enum, ns in enums_and_ns: the three prints of one iteration.
PrintHeader ==
    /\ pc = "header"
    /\ i <= Len(enums_and_ns)
    /\ out' = print(out, generate_namespace_header(enums_and_ns[i][2]))
    /\ pc' = "function"
    /\ UNCHANGED <<cpp_file, tree, enums_and_ns, i, exitCode, failedAt, genEnum, genCode>>

PrintFunction ==
    /\ pc = "function"
    /\ out' = print(out, generate_error_msg_function(tree[enums_and_ns[i][1]]))
    /\ pc' = "footer"
    /\ UNCHANGED <<cpp_file, tree, enums_and_ns, i, exitCode, failedAt, genEnum, genCode>>

\* A slip that prints the opening lines again where the closing lines go.
PrintFooter_opens ==
    /\ pc = "footer"
    /\ out' = print(out, generate_namespace_header(enums_and_ns[i][2]))
    /\ pc' = "header"
    /\ i' = i + 1
    /\ UNCHANGED <<cpp_file, tree, enums_and_ns, exitCode, failedAt, genEnum, genCode>>

PrintFooter ==
    /\ pc = "footer"
    /\ out' = print(out, generate_namespace_footer(enums_and_ns[i][2]))
    /\ pc' = "header"
    /\ i' = i + 1
    /\ UNCHANGED <<cpp_file, tree, enums_and_ns, exitCode, failedAt, genEnum, genCode>>

\* A print or the generator raises inside the loop (for instance an
\* identifier the output encoding cannot represent).
EmitFail ==
    /\ pc \in {"header", "function", "footer"}
    /\ i <= Len(enums_and_ns)
    /\ Raise("emit", "emit error")
    /\ UNCHANGED <<cpp_file, tree, enums_and_ns, i, genEnum, genCode>>

\* The loop is over and main returns: the interpreter exits with status 0.
Return ==
    /\ pc = "header"
    /\ i > Len(enums_and_ns)
    /\ exitCode' = <<0>>
    /\ pc' = "exited"
    /\ UNCHANGED <<cpp_file, tree, enums_and_ns, i, out, failedAt, genEnum, genCode>>

Next ==
    \/ AddDecl(MaxRunNodes)
    \/ ParseAndExtract
    \/ ParseFail
    \/ ExtractFail
    \/ PrintBanner
    \/ PrintInclude
    \/ PrintHeader
    \/ PrintFunction
    \/ PrintFooter
    \/ EmitFail
    \/ Return

Spec == Init /\ [][Next]_vars

\* ------------------------------------------------- extraction on its own
NextExtract ==
    \/ AddDecl(MaxNodes)
    \/ ParseAndExtract

SpecExtract == Init /\ [][NextExtract]_vars

\* -------------------------------------------------- generation on its own
ItemPool == {Const(<<"X">>), Const(<<"Y">>), Const(<<"Z">>), OtherItem}

\* Enumerators of one enum have distinct names (the language rejects a
\* redefinition and the front end drops it from the tree).
DistinctConstants(items) ==
    \A j, k \in 1..Len(items) :
        (j # k /\ items[j].kind = "ENUM_CONSTANT_DECL" /\ items[k].kind = "ENUM_CONSTANT_DECL")
            => items[j].spelling # items[k].spelling

EnumNames == { <<>>, <<"E">>, <<"A", "b">> }

GenEnums ==
    { [kind |-> "ENUM_DECL", spelling |-> nm, items |-> its] :
        nm \in EnumNames,
        its \in { s \in UNION { [1..n -> ItemPool] : n \in 0..MaxItems } : DistinctConstants(s) } }

InitGen ==
    /\ cpp_file = ExistingFile
    /\ tree = <<>>
    /\ pc = "generate"
    /\ enums_and_ns = <<>>
    /\ i = 0
    /\ out = <<>>
    /\ exitCode = <<>>
    /\ failedAt = "none"
    /\ genEnum \in GenEnums
    /\ genCode = <<>>

Generate ==
    /\ pc = "generate"
    /\ genCode' = generate_error_msg_function(genEnum)
    /\ pc' = "generated"
    /\ UNCHANGED <<cpp_file, tree, enums_and_ns, i, out, exitCode, failedAt, genEnum>>

NextGen == Generate

SpecGen == InitGen /\ [][NextGen]_vars

\* ============================================================ properties
\* ---- helpers of the properties (not part of the program)
RECURSIVE LinesFrom(_, _, _)
LinesFrom(text, k, cur) ==
    IF k > Len(text) THEN (IF cur = <<>> THEN <<>> ELSE << cur >>)
    ELSE IF text[k] = NL THEN << cur >> \o LinesFrom(text, k + 1, <<>>)
         ELSE LinesFrom(text, k + 1, Append(cur, text[k]))

\* The lines of a text, without their newlines.
Lines(text) == LinesFrom(text, 1, <<>>)

\* The scopes enclosing node n, outermost first.
RECURSIVE Enclosing(_, _)
Enclosing(t, n) ==
    IF t[n].parent = 0 THEN <<>> ELSE Append(Enclosing(t, t[n].parent), t[n].parent)

EnclosingNames(t, n) == [k \in 1..Len(Enclosing(t, n)) |-> t[Enclosing(t, n)[k]].spelling]

ViaNamespacesOnly(t, n) ==
    \A k \in 1..Len(Enclosing(t, n)) : t[Enclosing(t, n)[k]].kind = "NAMESPACE"

RECURSIVE JoinSep(_)
JoinSep(names) ==
    IF names = <<>> THEN <<>>
    ELSE IF Len(names) = 1 THEN names[1]
         ELSE names[1] \o Sep \o JoinSep(Tail(names))

\* The path the traversal carries when it reaches node n: the enclosing
\* namespaces' names, added one by one from the outermost.
RECURSIVE CarriedPath(_, _)
CarriedPath(t, n) ==
    IF t[n].parent = 0 THEN <<>>
    ELSE new_ns(CarriedPath(t, t[n].parent), t[t[n].parent].spelling)

Extracted == pc = "extracted"

RecNode(k) == enums_and_ns[k][1]

RecPath(k) == enums_and_ns[k][2]

Recs == 1..Len(enums_and_ns)

RecNodes == { RecNode(k) : k \in Recs }

IsEnumDef(n) == n.kind = "ENUM_DECL" /\ n.is_definition

AllNamed(names) == \A k \in 1..Len(names) : names[k] # <<>>

\* ---- C3: the records come in document order (depth-first, a namespace's
\* enums before the declarations that follow the namespace), each with the
\* path carried to its declaration site: the path depends on the enclosing
\* namespaces only, never on a namespace visited earlier, and for named
\* namespaces it is their names joined by "::", outermost first.
C3_DiscoveryOrder ==
    Extracted =>
        /\ \A j, k \in Recs : j < k => RecNode(j) < RecNode(k)
        /\ \A k \in Recs :
              /\ RecPath(k) = CarriedPath(tree, RecNode(k))
              /\ AllNamed(EnclosingNames(tree, RecNode(k)))
                    => RecPath(k) = JoinSep(EnclosingNames(tree, RecNode(k)))

\* E1, E2 inside namespace A and E3 at top level after A give
\* [(E1, "A"), (E2, "A"), (E3, "")].
C3_Witness ==
    /\ Extracted
    /\ Len(tree) = 4
    /\ tree[1].kind = "NAMESPACE" /\ tree[1].spelling = <<"A">> /\ tree[1].parent = 0
    /\ IsEnumDef(tree[2]) /\ tree[2].parent = 1
    /\ IsEnumDef(tree[3]) /\ tree[3].parent = 1
    /\ IsEnumDef(tree[4]) /\ tree[4].parent = 0
    /\ enums_and_ns = << <<2, <<"A">> >>, <<3, <<"A">> >>, <<4, <<>> >> >>

\* ---- C4: every extracted record is a scoped, named enumeration (an
\* `enum class`); a plain or unnamed enum is never extracted.
C4_OnlyEnumClass ==
    Extracted => \A k \in Recs : tree[RecNode(k)].scoped /\ tree[RecNode(k)].spelling # <<>>

\* ---- C5: a forward declaration is never extracted, at any depth; when a
\* forward declaration and the definition both appear, the definition is
\* extracted once.
C5_NoForwardDeclarations ==
    Extracted =>
        /\ \A k \in Recs : tree[RecNode(k)].is_definition
        /\ \A n \in 1..Len(tree) :
              (tree[n].kind = "ENUM_DECL" /\ ~tree[n].is_definition) => n \notin RecNodes
        /\ \A f, d \in 1..Len(tree) :
              ( /\ tree[f].kind = "ENUM_DECL" /\ ~tree[f].is_definition
                /\ IsEnumDef(tree[d]) /\ tree[d].spelling = tree[f].spelling
                /\ tree[d].parent = tree[f].parent /\ ViaNamespacesOnly(tree, d) )
              => Cardinality({ k \in Recs : RecNode(k) = d }) = 1

C5_Witness ==
    /\ Extracted
    /\ \E f, d \in 1..Len(tree) :
          /\ f < d
          /\ tree[f].kind = "ENUM_DECL" /\ ~tree[f].is_definition
          /\ IsEnumDef(tree[d]) /\ tree[d].spelling = tree[f].spelling
          /\ tree[d].parent = tree[f].parent /\ tree[d].parent # 0
          /\ ViaNamespacesOnly(tree, d)
          /\ d \in RecNodes /\ f \notin RecNodes

\* ---- C8: the extracted nodes are exactly the enum definitions whose
\* enclosing scopes are all namespaces, each once.
C8_ExactlyReachableDefinitions ==
    Extracted =>
        /\ RecNodes = { n \in 1..Len(tree) : IsEnumDef(tree[n]) /\ ViaNamespacesOnly(tree, n) }
        /\ Cardinality(RecNodes) = Len(enums_and_ns)

C8_Witness ==
    /\ Extracted
    /\ \E c, n \in 1..Len(tree) :
          /\ IsEnumDef(tree[c]) /\ tree[c].parent # 0 /\ tree[tree[c].parent].kind = "CLASS_DECL"
          /\ c \notin RecNodes
          /\ IsEnumDef(tree[n]) /\ tree[n].parent # 0 /\ tree[tree[n].parent].kind = "NAMESPACE"
          /\ n \in RecNodes

\* ---- C9: for an enum inside an anonymous namespace, the recorded path has
\* one segment per enclosing namespace, the anonymous one being the empty
\* segment in its position.
PathSegments(path) == IF path = <<>> THEN <<>> ELSE split(path)

C9_AnonymousSegment ==
    Extracted =>
        \A k \in Recs :
            (~AllNamed(EnclosingNames(tree, RecNode(k))))
                => PathSegments(RecPath(k)) = EnclosingNames(tree, RecNode(k))

\* ---- C2: namespace round trip. A recorded path of depth D (0 for the
\* empty path, else one more than its number of "::" separators) gives D
\* opening lines `namespace <name> {` whose names, joined by "::", are the
\* path again, and D closing lines `} // namespace <name>` naming the same
\* names in reverse; the empty path gives the empty text for both.
Depth(path) ==
    IF path = <<>> THEN 0
    ELSE (Cardinality({ k \in 1..Len(path) : path[k] = Colon }) \div 2) + 1

IsOpenLine(line) == Len(line) >= 2 /\ line[1] = "namespace " /\ line[Len(line)] = " {"

OpenName(line) == SubSeq(line, 2, Len(line) - 1)

IsCloseLine(line) == Len(line) >= 1 /\ line[1] = "} // namespace "

CloseName(line) == SubSeq(line, 2, Len(line))

RoundTrip(path) ==
    LET h == Lines(generate_namespace_header(path))
        f == Lines(generate_namespace_footer(path))
        D == Depth(path)
    IN  /\ Len(h) = D /\ Len(f) = D
        /\ \A k \in 1..Len(h) : IsOpenLine(h[k]) /\ Colon \notin { h[k][j] : j \in 1..Len(h[k]) }
        /\ \A k \in 1..Len(f) : IsCloseLine(f[k])
        /\ JoinSep([k \in 1..Len(h) |-> OpenName(h[k])]) = path
        /\ \A k \in 1..Len(f) : k <= Len(h) => CloseName(f[k]) = OpenName(h[Len(h) + 1 - k])
        /\ path = <<>> => generate_namespace_header(path) = <<>> /\ generate_namespace_footer(path) = <<>>

RECURSIVE Enumerators(_)
Enumerators(items) ==
    IF items = <<>> THEN <<>>
    ELSE (IF Head(items).kind = "ENUM_CONSTANT_DECL" THEN << Head(items).spelling >> ELSE <<>>)
         \o Enumerators(Tail(items))

IsCaseLine(line) == Len(line) >= 1 /\ line[1] = "        case "

IsDefaultLine(line) == Len(line) >= 1 /\ line[1] = "        default: return \"Unknown error\";"

\* Where the `: return "` of a case line is.
ReturnAt(line) == CHOOSE r \in 1..Len(line) : line[r] = ": return \""

CaseLabel(line) == SubSeq(line, 2, ReturnAt(line) - 1)

CaseLiteral(line) == SubSeq(line, ReturnAt(line) + 1, Len(line) - 1)

SwitchOf(enum, code) ==
    LET ls == Lines(code)
        cs == Enumerators(enum.items)
        N == Len(cs)
        caseAt == { k \in 1..Len(ls) : IsCaseLine(ls[k]) }
        defaultAt == { k \in 1..Len(ls) : IsDefaultLine(ls[k]) }
    IN  /\ Cardinality(caseAt) = N
        /\ caseAt = { 2 + k : k \in 1..N }
        /\ \A k \in 1..N :
              /\ \E r \in 1..Len(ls[2 + k]) : ls[2 + k][r] = ": return \""
              /\ ls[2 + k][Len(ls[2 + k])] = "\";"
              /\ CaseLabel(ls[2 + k]) = enum.spelling \o Sep \o cs[k]
              /\ CaseLiteral(ls[2 + k]) = cs[k]
        /\ defaultAt = { 3 + N }
        /\ Len(ls[3 + N]) = 1

C1_CasePerEnumerator == pc = "generated" => SwitchOf(genEnum, genCode)

\* Two enumerators and a child that is no enumerator.
C1_Witness ==
    /\ pc = "generated"
    /\ genEnum.spelling = <<"E">>
    /\ genEnum.items = << Const(<<"Y">>), OtherItem, Const(<<"X">>) >>
    /\ Lines(genCode)[3] = <<"        case ", "E", Colon, Colon, "Y", ": return \"", "Y", "\";">>
    /\ Lines(genCode)[4] = <<"        case ", "E", Colon, Colon, "X", ": return \"", "X", "\";">>

\* ---- C6: a run whose parsing or extraction fails prints the one line
\* `Error: <message>` and nothing else, and exits with status 1; a run that
\* raises nothing exits with status 0.
C6_ErrorExit ==
    pc = "exited" =>
        /\ failedAt \in {"parse", "extract"} =>
              /\ exitCode = <<1>>
              /\ Len(out) = 1
              /\ Len(Lines(out[1])) = 1
              /\ Lines(out[1])[1][1] = "Error: "
              /\ \A k \in 1..Len(out[1]) :
                    out[1][k] \notin {Banner[1], "#include \"", "const char* ", "namespace "}
        /\ failedAt = "none" => exitCode = <<0>>
        /\ exitCode = <<0>> => failedAt = "none"

\* A missing file.
C6_Witness ==
    /\ pc = "exited"
    /\ cpp_file = MissingFile
    /\ failedAt = "parse"
    /\ out = << <<"Error: ", "Error parsing translation unit.", NL>> >>
    /\ exitCode = <<1>>

\* ---- C7: a run that raises nothing prints the banner, the include line
\* naming the input file, then for each record in discovery order its
\* opening lines, its function and its closing lines; with no record the
\* output is the banner and the include line; the exit status is 0.
Block(k) ==
    << generate_namespace_header(RecPath(k)) \o <<NL>>,
       generate_error_msg_function(tree[RecNode(k)]) \o <<NL>>,
       generate_namespace_footer(RecPath(k)) \o <<NL>> >>

RECURSIVE BlocksFrom(_)
BlocksFrom(k) == IF k > Len(enums_and_ns) THEN <<>> ELSE Block(k) \o BlocksFrom(k + 1)

ExpectedOutput ==
    << <<"// Auto-generated error_msg function", NL, NL>>,
       <<"#include \"">> \o cpp_file \o <<"\"", NL, NL>> >>
    \o BlocksFrom(1)

IsPrefix(a, b) == Len(a) <= Len(b) /\ SubSeq(b, 1, Len(a)) = a

C7_OutputOrder ==
    (failedAt = "none" /\ pc # "source") =>
        /\ IsPrefix(out, ExpectedOutput)
        /\ pc = "exited" => (out = ExpectedOutput /\ exitCode = <<0>>)
        /\ pc = "exited" /\ enums_and_ns = <<>> => Len(out) = 2

\* Two enums with different paths, both blocks printed.
C7_Witness ==
    /\ pc = "exited" /\ failedAt = "none"
    /\ Len(enums_and_ns) = 2
    /\ RecPath(1) = <<"A">> /\ RecPath(2) = <<>>
    /\ Len(out) = 8
    /\ out[3] = <<"namespace ", "A", " {", NL, NL>>
    /\ out[5] = <<"} // namespace ", "A", NL, NL>>
    /\ out[6] = <<NL>>

\* ---- C10: in the printed block of every enum, anonymous namespaces
\* included, there are as many `namespace ... {` lines as `} // namespace`
\* lines, the i-th closing line names what the i-th opening line from the
\* end names, and the braces of the whole block balance.
OpenAtoms == {" {", " err) {", "    switch(err) {"}

CloseAtoms == {"    }", "}", "} // namespace "}

RECURSIVE BraceDepth(_, _)
\* Brace nesting after the first k atoms of a text; -1 once a brace closes
\* what was never opened.
BraceDepth(text, k) ==
    IF k = 0 THEN 0
    ELSE LET d == BraceDepth(text, k - 1)
         IN  IF d < 0 THEN d
             ELSE IF text[k] \in OpenAtoms THEN d + 1
             ELSE IF text[k] \in CloseAtoms THEN d - 1
             ELSE d

Balanced(k) ==
    LET hdr == out[3 * k]
        fn  == out[3 * k + 1]
        ftr == out[3 * k + 2]
        opens == SelectSeq(Lines(hdr), IsOpenLine)
        closes == SelectSeq(Lines(ftr), IsCloseLine)
        block == hdr \o fn \o ftr
    IN  /\ Len(opens) = Len(closes)
        /\ Len(opens) = Depth(RecPath(k))
        /\ \A j \in 1..Len(closes) : CloseName(closes[j]) = OpenName(opens[Len(opens) + 1 - j])
        /\ BraceDepth(block, Len(block)) = 0
        /\ BraceDepth(hdr, Len(hdr)) = Len(opens)

====
